---------------------------- MODULE Spec2Model ----------------------------
(***************************************************************************)
(* Model of the candidate analyzer in src/app.py: the per-document text    *)
(* extraction (extract_pdf_text), the field extractors (extract_between,   *)
(* extract_number) and the batch processing script that ingests uploaded   *)
(* files and pasted candidate blocks, asks the inference API for a reply   *)
(* per candidate and collects one record per candidate.                    *)
(*                                                                         *)
(* A Python str is modelled as a sequence of one-character strings, so     *)
(* that searching, slicing, trimming and number parsing are computed and   *)
(* not assumed.  np.nan is modelled by the integer NaN = -1, which         *)
(* extract_number can never produce from a digit run.                      *)
(***************************************************************************)
EXTENDS Integers, Sequences, FiniteSets, TLC

VARIABLES
    job_description,    \* text of the job description input
    api_key,            \* configured API key ("" when absent)
    custom_threshold,   \* slider value
    uploaded_files,     \* sequence of uploaded files [name, doc]
    pasted_candidates,  \* pasted text
    pc,                 \* position of the script
    file_idx,           \* index of the next uploaded file to ingest
    tmpdir,             \* temporary directory: set of <<name, doc>> written
    candidates,         \* list of [name, cv_text]
    ocr_log,            \* per ingested pdf: pages on which OCR was invoked
    results,            \* list of records
    filtered_df,        \* rows with Score >= custom_threshold
    best_df,            \* rows with Score = max Score
    ex_text,            \* extract_between under test: text
    ex_start,           \* start_key
    ex_end,             \* end_key (<<>> models None)
    ex_out,             \* returned value
    ex_done             \* whether extract_between has returned

vars == <<job_description, api_key, custom_threshold, uploaded_files,
          pasted_candidates, pc, file_idx, tmpdir, candidates, ocr_log,
          results, filtered_df, best_df, ex_text, ex_start, ex_end, ex_out,
          ex_done>>

pipeVars == <<job_description, api_key, custom_threshold, uploaded_files,
              pasted_candidates, pc, file_idx, tmpdir, candidates, ocr_log,
              results, filtered_df, best_df>>

exVars == <<ex_text, ex_start, ex_end, ex_out, ex_done>>

-----------------------------------------------------------------------------
(* Bounds of the model. *)

MaxFiles == 2

MaxPages == 2

MaxSegs == 3

MaxLen == 5

-----------------------------------------------------------------------------
(* String literals of the program, as character sequences. *)

K_Score ==
    <<"S","c","o","r","e",":">>

K_FinalVerdictColon ==
    <<"F","i","n","a","l"," ","V","e","r","d","i","c","t",":">>

K_Newline ==
    <<"\n">>

K_SkillMatch ==
    <<"S","k","i","l","l"," ","M","a","t","c","h"," ","P","e","r","c","e","n","t","a","g","e",":">>

K_ExperienceYears ==
    <<"E","x","p","e","r","i","e","n","c","e"," ","Y","e","a","r","s",":">>

K_TopStrengths ==
    <<"T","o","p"," ","3"," ","S","t","r","e","n","g","t","h","s",":">>

K_RedFlags ==
    <<"R","e","d"," ","F","l","a","g","s">>

K_Justify ==
    <<"J","u","s","t","i","f","y">>

K_JustifyRoleFit ==
    <<"J","u","s","t","i","f","y"," ","r","o","l","e"," ","f","i","t",":">>

K_IfNotRecommended ==
    <<"I","f"," ","n","o","t"," ","r","e","c","o","m","m","e","n","d","e","d">>

K_IfNotRecommendedWhy ==
    <<"I","f"," ","n","o","t"," ","r","e","c","o","m","m","e","n","d","e","d",","," ","e","x","p","l","a","i","n"," ","w","h","y",":">>

K_FinalVerdict ==
    <<"F","i","n","a","l"," ","V","e","r","d","i","c","t">>

K_OneLine ==
    <<"P","r","o","v","i","d","e"," ","a"," ","o","n","e","-","l","i","n","e"," ","r","e","c","o","m","m","e","n","d","a","t","i","o","n",":">>

K_Summarize ==
    <<"S","u","m","m","a","r","i","z","e"," ","k","e","y"," ","i","n","s","i","g","h","t","s"," ","a","n","d"," ","d","a","t","a"," ","e","x","t","r","a","c","t","e","d"," ","f","r","o","m"," ","r","e","s","u","m","e">>

NA ==
    <<"N","/","A">>

NoApiKeyMsg ==
    <<"N","o"," ","A","P","I"," ","k","e","y"," ","c","o","n","f","i","g","u","r","e","d",".">>

ApiErrorPrefix ==
    <<"A","P","I"," ","E","r","r","o","r",":"," ">>

ErrorReadingPrefix ==
    <<"E","r","r","o","r"," ","r","e","a","d","i","n","g"," ">>

ColonSpace ==
    <<":"," ">>

DotPdf ==
    <<".","p","d","f">>

PasteSeparator ==
    <<"-","-","-">>

PastedPrefix ==
    <<"P","a","s","t","e","d","_","C","a","n","d","i","d","a","t","e","_">>

DotTxt ==
    <<".","t","x","t">>

NoResponseMsg ==
    <<"N","o"," ","r","e","s","p","o","n","s","e">>

-----------------------------------------------------------------------------
(* Python str primitives. *)

NaN == -1

Whitespace == {" ", "\n", "\t", "\r"}

DigitChars == <<"0", "1", "2", "3", "4", "5", "6", "7", "8", "9">>

IsDigit(c) == \E d \in 1..10 : DigitChars[d] = c

DigitVal(c) == (CHOOSE d \in 1..10 : DigitChars[d] = c) - 1

UpperChars ==
    <<"A","B","C","D","E","F","G","H","I","J","K","L","M",
      "N","O","P","Q","R","S","T","U","V","W","X","Y","Z">>

LowerChars ==
    <<"a","b","c","d","e","f","g","h","i","j","k","l","m",
      "n","o","p","q","r","s","t","u","v","w","x","y","z">>

\* str.lower() on one character; also the case folding of re.IGNORECASE
lower(c) ==
    IF \E k \in 1..26 : UpperChars[k] = c
    THEN LowerChars[CHOOSE k \in 1..26 : UpperChars[k] = c]
    ELSE c

lower_str(s) == [k \in 1..Len(s) |-> lower(s[k])]

SetMin(S) == CHOOSE x \in S : \A y \in S : x <= y

SetMax(S) == CHOOSE x \in S : \A y \in S : y <= x

\* str.strip()
strip(s) ==
    LET keep == {k \in 1..Len(s) : s[k] \notin Whitespace}
    IN  IF keep = {} THEN <<>> ELSE SubSeq(s, SetMin(keep), SetMax(keep))

\* the literal key occurs in s at position k (case-sensitive)
OccursAt(s, key, k) ==
    /\ k + Len(key) - 1 <= Len(s)
    /\ \A j \in 1..Len(key) : s[k + j - 1] = key[j]

\* str.endswith
endswith(s, suffix) ==
    /\ Len(suffix) <= Len(s)
    /\ OccursAt(s, suffix, Len(s) - Len(suffix) + 1)

\* str.split(sep) for a non-empty sep: cut at each occurrence, left to right
RECURSIVE split(_, _)
split(s, sep) ==
    LET hits == {k \in 1..Len(s) : OccursAt(s, sep, k)}
    IN  IF hits = {} THEN <<s>>
        ELSE LET k == SetMin(hits)
             IN  <<SubSeq(s, 1, k - 1)>>
                     \o split(SubSeq(s, k + Len(sep), Len(s)), sep)

\* str(n) for n >= 0
RECURSIVE str_of_int(_)
str_of_int(n) ==
    IF n < 10 THEN <<DigitChars[n + 1]>>
    ELSE str_of_int(n \div 10) \o <<DigitChars[(n % 10) + 1]>>

\* int(s) for a non-empty run of decimal digits
RECURSIVE int_of_str(_)
int_of_str(s) ==
    IF Len(s) = 0 THEN 0
    ELSE 10 * int_of_str(SubSeq(s, 1, Len(s) - 1)) + DigitVal(s[Len(s)])

-----------------------------------------------------------------------------
(* extract_number and extract_between. *)

\* extract_number as it would be with a truthiness test on the parsed value
\* ("int(...) or np.nan"): a parsed 0 becomes NaN
extract_number_falsy_zero(text) ==
    LET ds == {k \in 1..Len(text) : IsDigit(text[k])}
    IN  IF ds = {} THEN NaN
        ELSE LET b == SetMin(ds)
                 e == SetMax({j \in b..Len(text) :
                                 \A m \in b..j : IsDigit(text[m])})
                 n == int_of_str(SubSeq(text, b, e))
             IN  IF n = 0 THEN NaN ELSE n

\* re.search(r"\d+", text): the leftmost maximal run of digits
extract_number(text) ==
    LET ds == {k \in 1..Len(text) : IsDigit(text[k])}
    IN  IF ds = {} THEN NaN
        ELSE LET b == SetMin(ds)
                 e == SetMax({j \in b..Len(text) :
                                 \A m \in b..j : IsDigit(text[m])})
             IN  int_of_str(SubSeq(text, b, e))

\* re.escape(key) matched under re.IGNORECASE at position k of text
MatchAt(text, key, k) ==
    /\ k + Len(key) - 1 <= Len(text)
    /\ \A j \in 1..Len(key) : lower(text[k + j - 1]) = lower(key[j])

\* the regex anchor "$" without re.MULTILINE: the end of the text, or just
\* before a newline that ends the text
AtDollar(text, k) ==
    \/ k = Len(text) + 1
    \/ k = Len(text) /\ text[k] = "\n"

\* the stop of a greedy group (.*) before the same lookahead: the last
\* position where it succeeds
GreedyStop(text, end_key, b) ==
    SetMax({k \in b..(Len(text) + 1) :
               MatchAt(text, end_key, k) \/ AtDollar(text, k)})

\* position at which the lazy group (.*?) stops: the first position at or
\* after b where the lookahead (?=end_key|$) succeeds
LazyStop(text, end_key, b) ==
    SetMin({k \in b..(Len(text) + 1) :
               MatchAt(text, end_key, k) \/ AtDollar(text, k)})

\* extract_between(text, start_key, end_key); end_key = <<>> stands for the
\* falsy end_key (None), for which the greedy (.*) runs to the end of text
extract_between(text, start_key, end_key) ==
    LET hits == {k \in 1..(Len(text) + 1) : MatchAt(text, start_key, k)}
    IN  IF hits = {} THEN NA
        ELSE LET b == SetMin(hits) + Len(start_key)
                 e == IF end_key # <<>>
                      THEN LazyStop(text, end_key, b)
                      ELSE Len(text) + 1
             IN  strip(SubSeq(text, b, e - 1))

-----------------------------------------------------------------------------
(* extract_pdf_text.  A document is [opens, err, pages]: whether fitz.open *)
(* succeeds (err is the exception text otherwise) and its pages; a page is *)
(* [native, ocr_ok, ocr]: the native text layer, whether rendering and     *)
(* recognition succeed, and the recognised text (the exception text when   *)
(* they fail).                                                             *)

\* the except branch: f"Error reading {os.path.basename(pdf_path)}: {str(e)}"
error_reading(name, e) == ErrorReadingPrefix \o name \o ColonSpace \o e

\* the page loop with the test "if not txt" in place of "if not txt.strip()"
RECURSIVE page_loop_no_strip(_, _, _, _)
page_loop_no_strip(pages, k, text, calls) ==
    IF k > Len(pages)
    THEN [raised |-> FALSE, text |-> text, ocr_calls |-> calls]
    ELSE LET page == pages[k]
         IN  IF page.native = <<>>
             THEN IF page.ocr_ok
                  THEN page_loop_no_strip(pages, k + 1,
                                          text \o page.ocr \o <<"\n">>,
                                          Append(calls, k))
                  ELSE [raised |-> TRUE, text |-> page.ocr,
                        ocr_calls |-> Append(calls, k)]
             ELSE page_loop_no_strip(pages, k + 1,
                                     text \o page.native \o <<"\n">>, calls)

\* the page loop with a try/except around the recognition of one page: a
\* failing page contributes empty text and the walk goes on
RECURSIVE page_loop_local(_, _, _, _)
page_loop_local(pages, k, text, calls) ==
    IF k > Len(pages)
    THEN [raised |-> FALSE, text |-> text, ocr_calls |-> calls]
    ELSE LET page == pages[k]
         IN  IF strip(page.native) = <<>>
             THEN page_loop_local(pages, k + 1,
                                  text \o (IF page.ocr_ok THEN page.ocr
                                           ELSE <<>>) \o <<"\n">>,
                                  Append(calls, k))
             ELSE page_loop_local(pages, k + 1,
                                  text \o page.native \o <<"\n">>, calls)

\* the page loop from page k on, with text accumulated so far; calls lists
\* the pages for which get_pixmap / image_to_string were invoked
RECURSIVE page_loop(_, _, _, _)
page_loop(pages, k, text, calls) ==
    IF k > Len(pages)
    THEN [raised |-> FALSE, text |-> text, ocr_calls |-> calls]
    ELSE LET page == pages[k]
         IN  IF strip(page.native) = <<>>
             THEN IF page.ocr_ok
                  THEN page_loop(pages, k + 1, text \o page.ocr \o <<"\n">>,
                                 Append(calls, k))
                  ELSE [raised |-> TRUE, text |-> page.ocr,
                        ocr_calls |-> Append(calls, k)]
             ELSE page_loop(pages, k + 1, text \o page.native \o <<"\n">>,
                            calls)

\* one call of extract_pdf_text: the returned string and the OCR invocations
extract_pdf_run(name, doc) ==
    IF ~doc.opens
    THEN [text |-> error_reading(name, doc.err), ocr_calls |-> <<>>]
    ELSE LET r == page_loop(doc.pages, 1, <<>>, <<>>)
         IN  [text |-> IF r.raised THEN error_reading(name, r.text)
                       ELSE r.text,
              ocr_calls |-> r.ocr_calls]

extract_pdf_text(name, doc) == extract_pdf_run(name, doc).text

-----------------------------------------------------------------------------
(* call_openrouter_api.  The outcome of the HTTP request is [kind, txt]:   *)
(* "content" (the reply carries message content txt), "missing" (the JSON  *)
(* has no content) or "raise" (the request or its decoding raises txt).    *)

call_openrouter_api(key, out) ==
    IF key = <<>> THEN NoApiKeyMsg
    ELSE IF out.kind = "content" THEN out.txt
    ELSE IF out.kind = "missing" THEN NoResponseMsg
    ELSE ApiErrorPrefix \o out.txt

-----------------------------------------------------------------------------
(* The record built for one candidate in the results loop. *)

make_record(name, ai_response) ==
    [Candidate |-> name,
     Score |-> extract_number(extract_between(ai_response, K_Score, <<>>)),
     Recommendation |->
         extract_between(ai_response, K_FinalVerdictColon, K_Newline),
     SkillMatchPct |->
         extract_number(extract_between(ai_response, K_SkillMatch, <<>>)),
     ExperienceYears |->
         extract_between(ai_response, K_ExperienceYears, K_Newline),
     TopStrengths |->
         extract_between(ai_response, K_TopStrengths, K_RedFlags),
     RedFlags |-> extract_between(ai_response, K_RedFlags, K_Justify),
     FitJustification |->
         extract_between(ai_response, K_JustifyRoleFit, K_IfNotRecommended),
     WhyNotSelected |->
         extract_between(ai_response, K_IfNotRecommendedWhy, K_FinalVerdict),
     AIRecommendation |-> extract_between(ai_response, K_OneLine, <<>>),
     ResumeSummary |-> extract_between(ai_response, K_Summarize, <<>>),
     FullAIAnalysis |-> ai_response]

\* the candidates appended by the loop over pasted_candidates.split("---")
pasted_list(pasted) ==
    LET chunks == split(pasted, PasteSeparator)
    IN  [i \in 1..Len(chunks) |->
            [name |-> PastedPrefix \o str_of_int(i) \o DotTxt,
             cv_text |-> strip(chunks[i])]]

\* df["Score"].max(): the largest score that is not NaN, NaN when none is
score_max(rows) ==
    LET nums == {rows[i].Score : i \in 1..Len(rows)} \ {NaN}
    IN  IF nums = {} THEN NaN ELSE SetMax(nums)

\* df[df["Score"] >= custom_threshold]; a comparison with NaN is False
filter_rows(rows, threshold) ==
    LET keep(r) == r.Score # NaN /\ r.Score >= threshold
    IN  SelectSeq(rows, keep)

\* the selection by df["Score"].idxmax(): only the first row with the
\* largest score
best_rows_first(rows) ==
    LET m == score_max(rows)
        hits == {i \in 1..Len(rows) : m # NaN /\ rows[i].Score = m}
    IN  IF hits = {} THEN <<>> ELSE <<rows[SetMin(hits)]>>

\* df[df["Score"] == df["Score"].max()]; a comparison with NaN is False
best_rows(rows) ==
    LET m == score_max(rows)
        keep(r) == r.Score # NaN /\ m # NaN /\ r.Score = m
    IN  SelectSeq(rows, keep)

-----------------------------------------------------------------------------
(* The processing script, one run after the Analyze button is pressed. *)

\* if process_button and job_description and (uploaded_files or
\* pasted_candidates): start with an empty candidate list
Analyze ==
    /\ pc = "start"
    /\ job_description # <<>>
    /\ uploaded_files # <<>> \/ pasted_candidates # <<>>
    /\ pc' = "files"
    /\ candidates' = <<>>
    /\ file_idx' = 1
    /\ UNCHANGED <<job_description, api_key, custom_threshold, uploaded_files,
                   pasted_candidates, tmpdir, ocr_log, results, filtered_df,
                   best_df>>
    /\ UNCHANGED exVars

\* the else branch: st.error, nothing is processed
Reject ==
    /\ pc = "start"
    /\ ~(/\ job_description # <<>>
         /\ uploaded_files # <<>> \/ pasted_candidates # <<>>)
    /\ pc' = "error"
    /\ UNCHANGED <<job_description, api_key, custom_threshold, uploaded_files,
                   pasted_candidates, file_idx, tmpdir, candidates, ocr_log,
                   results, filtered_df, best_df>>
    /\ UNCHANGED exVars

\* one iteration of "for file in uploaded_files": the file is written to the
\* temporary directory, and only a name ending in ".pdf" adds a candidate
IngestFile ==
    /\ pc = "files"
    /\ file_idx <= Len(uploaded_files)
    /\ LET file == uploaded_files[file_idx]
           written == {p \in tmpdir : p[1] # file.name}
                          \cup {<<file.name, file.doc>>}
           onDisk == (CHOOSE p \in written : p[1] = file.name)[2]
           run == extract_pdf_run(file.name, onDisk)
       IN  /\ tmpdir' = written
           /\ IF endswith(lower_str(file.name), DotPdf)
              THEN /\ candidates' =
                          Append(candidates,
                                 [name |-> file.name, cv_text |-> run.text])
                   /\ ocr_log' = Append(ocr_log, run.ocr_calls)
              ELSE UNCHANGED <<candidates, ocr_log>>
    /\ file_idx' = file_idx + 1
    /\ UNCHANGED <<job_description, api_key, custom_threshold, uploaded_files,
                   pasted_candidates, pc, results, filtered_df, best_df>>
    /\ UNCHANGED exVars

\* after the files: the temporary directory is removed, the pasted text is
\* split on "---" and every chunk becomes a candidate; results = []
SplitPaste ==
    /\ pc = "files"
    /\ file_idx > Len(uploaded_files)
    /\ tmpdir' = {}
    /\ candidates' = IF pasted_candidates # <<>>
                     THEN candidates \o pasted_list(pasted_candidates)
                     ELSE candidates
    /\ results' = <<>>
    /\ pc' = "results"
    /\ UNCHANGED <<job_description, api_key, custom_threshold, uploaded_files,
                   pasted_candidates, file_idx, ocr_log, filtered_df, best_df>>
    /\ UNCHANGED exVars

\* one iteration of "for name, cv_text in candidates", the request to the
\* inference API ending in one of the given outcomes
ProcessCandidate(outcomes) ==
    /\ pc = "results"
    /\ Len(results) < Len(candidates)
    /\ \E out \in outcomes :
          LET cand == candidates[Len(results) + 1]
              ai_response == call_openrouter_api(api_key, out)
          IN  results' = Append(results, make_record(cand.name, ai_response))
    /\ UNCHANGED <<job_description, api_key, custom_threshold, uploaded_files,
                   pasted_candidates, pc, file_idx, tmpdir, candidates,
                   ocr_log, filtered_df, best_df>>
    /\ UNCHANGED exVars

\* after the loop: "if results:" builds the data frame and its two subsets
Finish ==
    /\ pc = "results"
    /\ Len(results) = Len(candidates)
    /\ pc' = "done"
    /\ IF results # <<>>
       THEN /\ filtered_df' = filter_rows(results, custom_threshold)
            /\ best_df' = best_rows(results)
       ELSE UNCHANGED <<filtered_df, best_df>>
    /\ UNCHANGED <<job_description, api_key, custom_threshold, uploaded_files,
                   pasted_candidates, file_idx, tmpdir, candidates, ocr_log,
                   results>>
    /\ UNCHANGED exVars

-----------------------------------------------------------------------------
(* Inputs. *)

SeqsUpTo(S, n) == UNION {[1..k -> S] : k \in 0..n}

RECURSIVE concat_all(_)
concat_all(ss) ==
    IF Len(ss) = 0 THEN <<>> ELSE Head(ss) \o concat_all(Tail(ss))

Name_cv_pdf ==
    <<"c","v",".","p","d","f">>

Name_b_PDF ==
    <<"b",".","P","D","F">>

Name_n_txt ==
    <<"n",".","t","x","t">>

Name_r_docx ==
    <<"r",".","d","o","c","x">>

PasteAliceBob ==
    <<"A","l","i","c","e"," ","i","n","f","o","\n","-","-","-","\n","\n",
      "-","-","-","\n","B","o","b"," ","i","n","f","o">>

Reply90 ==
    <<"S","c","o","r","e",":"," ","9","0","\n","F","i","n","a","l"," ",
      "V","e","r","d","i","c","t",":"," ","S","t","r","o","n","g"," ",
      "F","i","t","\n">>

Reply70 ==
    <<"S","c","o","r","e",":"," ","7","0">>

SpanExample ==
    <<"T","o","p"," ","3"," ","S","t","r","e","n","g","t","h","s",":","\n",
      "A","\n","B","\n","R","e","d"," ","F","l","a","g","s","\n","C">>

Seg_SCORE ==
    <<"S","C","O","R","E">>

Seg_85 ==
    <<"8","5">>

Timeout ==
    <<"t","i","m","e","o","u","t">>

\* pages of a pdf: native text layer x outcome of rendering and recognition
PageChoices ==
    [native : {<<>>, <<" ">>, <<"a">>, <<"b", "\n">>},
     ocr_ok : {TRUE},
     ocr    : {<<>>, <<"x">>}]
    \cup
    [native : {<<>>, <<" ">>, <<"a">>, <<"b", "\n">>},
     ocr_ok : {FALSE},
     ocr    : {<<"e">>}]

BadDoc == [opens |-> FALSE, err |-> <<"e">>, pages |-> <<>>]

Docs ==
    {BadDoc} \cup
    [opens : {TRUE}, err : {<<>>}, pages : SeqsUpTo(PageChoices, MaxPages)]

NativeDoc ==
    [opens |-> TRUE, err |-> <<>>,
     pages |-> <<[native |-> <<"a">>, ocr_ok |-> TRUE, ocr |-> <<>>]>>]

ScannedDoc ==
    [opens |-> TRUE, err |-> <<>>,
     pages |-> <<[native |-> <<>>, ocr_ok |-> TRUE, ocr |-> <<"x">>]>>]

\* files offered to the uploader (type pdf, docx or txt); two of them share
\* a file name
UploadChoices ==
    {[name |-> Name_cv_pdf, doc |-> NativeDoc],
     [name |-> Name_cv_pdf, doc |-> ScannedDoc],
     [name |-> Name_b_PDF, doc |-> BadDoc],
     [name |-> Name_n_txt, doc |-> BadDoc],
     [name |-> Name_r_docx, doc |-> BadDoc]}

Batches == SeqsUpTo(UploadChoices, MaxFiles)

PasteChoices == {<<>>, PasteAliceBob, <<"A">>}

\* outcomes of the request in the small batches
ApiOutcomes ==
    {[kind |-> "content", txt |-> Reply90],
     [kind |-> "content", txt |-> Reply70],
     [kind |-> "raise", txt |-> Timeout]}

\* reply texts for the field extraction: up to MaxSegs segments
ReportVocab ==
    {K_Score, Seg_SCORE, <<":">>, <<" ">>, <<"\n">>, <<"0">>, Seg_85, <<"x">>}

Reports == {concat_all(ss) : ss \in SeqsUpTo(ReportVocab, MaxSegs)}

FieldOutcomes == {[kind |-> "content", txt |-> r] : r \in Reports}

PdfOutcomes ==
    {[kind |-> "content", txt |-> Reply70],
     [kind |-> "missing", txt |-> <<>>]}

\* texts and labels for extract_between
ExAlphabet == {"s", "S", "e", " ", "\n"}

ExStarts == {<<"s">>, <<"S", "e">>}

ExEnds == {<<>>, <<"e">>, <<"\n">>, <<"E", "s">>}

ExInputs ==
    (SeqsUpTo(ExAlphabet, MaxLen) \X ExStarts \X ExEnds)
    \cup {<<SpanExample, K_TopStrengths, K_RedFlags>>}

-----------------------------------------------------------------------------
(* Specifications. *)

ExIdle ==
    /\ ex_text = <<>>
    /\ ex_start = <<>>
    /\ ex_end = <<>>
    /\ ex_out = <<>>
    /\ ex_done = FALSE

\* the state when the script starts with the given inputs
InitPipe(jds, keys, batches, pastes) ==
    /\ job_description \in jds
    /\ api_key \in keys
    /\ custom_threshold = 50
    /\ uploaded_files \in batches
    /\ pasted_candidates \in pastes
    /\ pc = "start"
    /\ file_idx = 1
    /\ tmpdir = {}
    /\ candidates = <<>>
    /\ ocr_log = <<>>
    /\ results = <<>>
    /\ filtered_df = <<>>
    /\ best_df = <<>>
    /\ ExIdle

\* batches of uploaded files and pasted blocks
Init == InitPipe({<<>>, <<"h", "r">>}, {<<>>, <<"k">>}, Batches, PasteChoices)

Next ==
    \/ Analyze
    \/ Reject
    \/ IngestFile
    \/ SplitPaste
    \/ ProcessCandidate(ApiOutcomes)
    \/ Finish

Spec == Init /\ [][Next]_vars

\* one pasted candidate, any reply text of Reports
InitField == InitPipe({<<"h", "r">>}, {<<"k">>}, {<<>>}, {<<"A">>})

NextField ==
    \/ Analyze
    \/ SplitPaste
    \/ ProcessCandidate(FieldOutcomes)
    \/ Finish

SpecField == InitField /\ [][NextField]_vars

\* one uploaded pdf, any document of Docs
InitPdf ==
    InitPipe({<<"h", "r">>}, {<<"k">>},
             {<<[name |-> Name_cv_pdf, doc |-> d]>> : d \in Docs}, {<<>>})

NextPdf ==
    \/ Analyze
    \/ IngestFile
    \/ SplitPaste
    \/ ProcessCandidate(PdfOutcomes)
    \/ Finish

SpecPdf == InitPdf /\ [][NextPdf]_vars

\* extract_between applied to one text and one pair of labels
InitExtract ==
    /\ job_description = <<>>
    /\ api_key = <<>>
    /\ custom_threshold = 50
    /\ uploaded_files = <<>>
    /\ pasted_candidates = <<>>
    /\ pc = "off"
    /\ file_idx = 1
    /\ tmpdir = {}
    /\ candidates = <<>>
    /\ ocr_log = <<>>
    /\ results = <<>>
    /\ filtered_df = <<>>
    /\ best_df = <<>>
    /\ \E inp \in ExInputs :
          /\ ex_text = inp[1]
          /\ ex_start = inp[2]
          /\ ex_end = inp[3]
    /\ ex_out = <<>>
    /\ ex_done = FALSE

ExtractBetween ==
    /\ pc = "off"
    /\ ~ex_done
    /\ ex_out' = extract_between(ex_text, ex_start, ex_end)
    /\ ex_done' = TRUE
    /\ UNCHANGED <<ex_text, ex_start, ex_end>>
    /\ UNCHANGED pipeVars

NextExtract == ExtractBetween

SpecExtract == InitExtract /\ [][NextExtract]_vars

-----------------------------------------------------------------------------
(* Vocabulary of the properties, stated on texts and not through the       *)
(* regular expressions of the program.                                     *)

Blank(s) == \A k \in 1..Len(s) : s[k] \in {" ", "\n", "\t", "\r"}

RECURSIVE TrimLeft(_)
TrimLeft(s) ==
    IF s # <<>> /\ Blank(<<Head(s)>>) THEN TrimLeft(Tail(s)) ELSE s

RECURSIVE TrimRight(_)
TrimRight(s) ==
    IF s # <<>> /\ Blank(<<s[Len(s)]>>)
    THEN TrimRight(SubSeq(s, 1, Len(s) - 1))
    ELSE s

Trimmed(s) == TrimRight(TrimLeft(s))

SameIgnoringCase(a, b) ==
    /\ Len(a) = Len(b)
    /\ \A k \in 1..Len(a) : lower(a[k]) = lower(b[k])

\* positions >= from at which label occurs in text, ignoring case
Occurrences(text, label, from) ==
    {k \in from..(Len(text) - Len(label) + 1) :
        SameIgnoringCase(SubSeq(text, k, k + Len(label) - 1), label)}

\* the trimmed span between the first start label and the first end label
\* after it (the end of the text when there is none), "N/A" without start
SpanBetween(text, start, end) ==
    LET so == Occurrences(text, start, 1)
    IN  IF so = {} THEN NA
        ELSE LET b == SetMin(so) + Len(start)
                 eo == IF end = <<>> THEN {} ELSE Occurrences(text, end, b)
                 e == IF eo = {} THEN Len(text) + 1 ELSE SetMin(eo)
             IN  Trimmed(SubSeq(text, b, e - 1))

RECURSIVE Horner(_, _)
Horner(ds, acc) ==
    IF ds = <<>> THEN acc ELSE Horner(Tail(ds), 10 * acc + DigitVal(Head(ds)))

\* position of the first character after the first label that is no space
AfterLabel(text, label) ==
    LET b == SetMin(Occurrences(text, label, 1)) + Len(label)
    IN  SetMin({k \in b..(Len(text) + 1) :
                   k = Len(text) + 1 \/ text[k] # " "})

\* the first label is followed, after optional spaces, by a digit
LabelWithDigits(text, label) ==
    /\ Occurrences(text, label, 1) # {}
    /\ AfterLabel(text, label) <= Len(text)
    /\ IsDigit(text[AfterLabel(text, label)])

\* the number whose digits follow the first label
NumberAfterLabel(text, label) ==
    LET p == AfterLabel(text, label)
        e == SetMax({j \in p..Len(text) : \A m \in p..j : IsDigit(text[m])})
    IN  Horner(SubSeq(text, p, e), 0)

\* the rest of the line on which the first label occurs
LineRemainder(text, label) ==
    LET b == SetMin(Occurrences(text, label, 1)) + Len(label)
        nl == {k \in b..Len(text) : text[k] = "\n"}
        e == IF nl = {} THEN Len(text) + 1 ELSE SetMin(nl)
    IN  SubSeq(text, b, e - 1)

\* the number of a line: its first digit run, NaN when it has no digit
LineNumber(line) ==
    LET ds == {k \in 1..Len(line) : IsDigit(line[k])}
    IN  IF ds = {} THEN NaN
        ELSE LET p == SetMin(ds)
                 e == SetMax({j \in p..Len(line) :
                                 \A m \in p..j : IsDigit(line[m])})
             IN  Horner(SubSeq(line, p, e), 0)

\* the pasted blocks that are not empty after trimming, in input order,
\* named by their 1-based position among them
ExpectedPasted(pasted) ==
    LET chunks == split(pasted, PasteSeparator)
        nonblank(c) == ~Blank(c)
        kept == SelectSeq(chunks, nonblank)
    IN  [i \in 1..Len(kept) |->
            [name |-> PastedPrefix \o str_of_int(i) \o DotTxt,
             cv_text |-> Trimmed(kept[i])]]

\* the candidates that come from the pasted text: those after the pdf files
PastedPart == SubSeq(candidates, Len(ocr_log) + 1, Len(candidates))

IsBest(rows, i) ==
    /\ rows[i].Score # NaN
    /\ \A j \in 1..Len(rows) :
          rows[j].Score # NaN => rows[j].Score <= rows[i].Score

\* a page on which rendering or recognition is attempted and fails
Fails(page) == Blank(page.native) /\ ~page.ocr_ok

\* the pages the walk reaches: up to the first failing page
Walked(pages) ==
    LET bad == {k \in 1..Len(pages) : Fails(pages[k])}
    IN  IF bad = {} THEN Len(pages) ELSE SetMin(bad)

\* page texts joined in page order, each followed by a newline
RECURSIVE JoinPages(_)
JoinPages(pages) ==
    IF pages = <<>> THEN <<>>
    ELSE (IF Blank(Head(pages).native) THEN Head(pages).ocr
          ELSE Head(pages).native) \o <<"\n">> \o JoinPages(Tail(pages))

\* the same with a failing page contributing empty text
RECURSIVE JoinPagesLocal(_)
JoinPagesLocal(pages) ==
    IF pages = <<>> THEN <<>>
    ELSE (IF ~Blank(Head(pages).native) THEN Head(pages).native
          ELSE IF Head(pages).ocr_ok THEN Head(pages).ocr
          ELSE <<>>) \o <<"\n">> \o JoinPagesLocal(Tail(pages))

-----------------------------------------------------------------------------
(* Properties. *)

\* C1: when the processing loop has finished, the results hold exactly one
\* record per input document: every uploaded file (pdf, docx or txt) and
\* every non-empty pasted block has a record, and there is no other record.
C1_Cardinality ==
    pc = "done" =>
        Len(results) =
            Len(uploaded_files)
            + Len(ExpectedPasted(pasted_candidates))

\* C2: if the first "Score:" label of the reply is followed by the digits of
\* a number n (0 included), the record's Score is n and not the sentinel;
\* if the reply contains no "Score" label at all, the Score is the sentinel
\* NaN and not 0.
C2_SentinelDistinction ==
    \A i \in 1..Len(results) :
        LET r == results[i]
            t == r.FullAIAnalysis
        IN  /\ LabelWithDigits(t, K_Score) =>
                  r.Score = NumberAfterLabel(t, K_Score) /\ r.Score # NaN
            /\ Occurrences(t, <<"S", "c", "o", "r", "e">>, 1) = {} =>
                  r.Score = NaN /\ r.Score # 0

\* a record for the reply "Score: 0" exists and its Score is 0
C2_Witness ==
    \E i \in 1..Len(results) :
        /\ results[i].FullAIAnalysis = K_Score \o <<" ", "0">>
        /\ results[i].Score = 0

\* C3: extract_between returns the trimmed text between the end of the
\* first case-insensitive occurrence of the start label and the first
\* case-insensitive occurrence of the end label after it, or up to the end
\* of the text when no end label follows, and "N/A" when the start label does
\* not occur.
C3_SpanExtraction ==
    ex_done => ex_out = SpanBetween(ex_text, ex_start, ex_end)

\* the example: "Top 3 Strengths:" to "Red Flags" gives "A\nB"
C3_Witness ==
    /\ ex_done
    /\ ex_text = SpanExample
    /\ ex_start = K_TopStrengths
    /\ ex_end = K_RedFlags
    /\ ex_out = <<"A", "\n", "B">>

\* C4: the pasted text is split on "---" into candidates in input order,
\* blocks that are empty after trimming are discarded, and each remaining
\* candidate is named by its 1-based position among the non-empty blocks.
C4_PasteSplitting ==
    pc \in {"results", "done"} =>
        PastedPart = ExpectedPasted(pasted_candidates)

\* C5: when at least one record has a numeric score, the best subset holds
\* exactly the records whose Score is the maximum numeric Score, all tied
\* records included and no record with a lower or missing score.
C5_BestSet ==
    (pc = "done" /\ \E i \in 1..Len(results) : results[i].Score # NaN) =>
        /\ \A i \in 1..Len(results) :
              IsBest(results, i) <=>
                  \E k \in 1..Len(best_df) : best_df[k] = results[i]
        /\ \A k \in 1..Len(best_df) :
              \E i \in 1..Len(results) :
                  IsBest(results, i) /\ best_df[k] = results[i]
        /\ Len(best_df) =
              Cardinality({i \in 1..Len(results) : IsBest(results, i)})

\* scores [90, 90, 70] give the two records that score 90
C5_Witness ==
    /\ pc = "done"
    /\ Len(results) = 3
    /\ results[1].Score = 90
    /\ results[2].Score = 90
    /\ results[3].Score = 70
    /\ best_df = <<results[1], results[2]>>

\* C6: the Score of every record appended to the results is an integer in
\* 0..100 or the missing-value sentinel, whatever the reply text.
C6_ScoreRange ==
    \A i \in 1..Len(results) :
        results[i].Score = NaN \/ results[i].Score \in 0..100

\* C7: no two records of the results have the same Candidate name.
C7_UniqueNames ==
    \A i, j \in 1..Len(results) :
        i # j => results[i].Candidate # results[j].Candidate

\* C8, as claimed: a page whose recognition fails contributes empty text and
\* the returned text still holds every other page in page order; it is not
\* replaced by an error string.
C8_OcrFailureLocal ==
    (Len(ocr_log) = 1 /\ uploaded_files[1].doc.opens) =>
        candidates[1].cv_text = JoinPagesLocal(uploaded_files[1].doc.pages)

\* C8, amended: when rendering or recognition fails on a page, the page walk
\* is abandoned and extract_pdf_text returns "Error reading <file name>:
\* <exception text>" in place of the text of all pages; nothing is raised,
\* the document is still a candidate and gets its one record.
C8_OcrFailureAborts ==
    (/\ Len(ocr_log) = 1
     /\ uploaded_files[1].doc.opens
     /\ \E k \in 1..Len(uploaded_files[1].doc.pages) :
           Fails(uploaded_files[1].doc.pages[k])) =>
        LET file == uploaded_files[1]
            bad == file.doc.pages[Walked(file.doc.pages)]
        IN  /\ Len(candidates) = 1
            /\ candidates[1].name = file.name
            /\ candidates[1].cv_text =
                  ErrorReadingPrefix \o file.name \o <<":", " ">> \o bad.ocr
            /\ pc = "done" => Len(results) = 1

\* a readable first page, a failing second page: the text is the error string
C8_Witness ==
    /\ pc = "done"
    /\ Len(results) = 1
    /\ Len(uploaded_files[1].doc.pages) = 2
    /\ uploaded_files[1].doc.pages[1].native = <<"a">>
    /\ Fails(uploaded_files[1].doc.pages[2])
    /\ candidates[1].cv_text =
          ErrorReadingPrefix \o Name_cv_pdf \o <<":", " ", "e">>

\* C9: on the pages the walk reaches, in page order, recognition is invoked
\* for a page exactly when its native text is empty or whitespace-only; a
\* page with non-whitespace native text contributes that text and never
\* triggers recognition, and the page texts are joined in page order.
C9_OcrTrigger ==
    (Len(ocr_log) = 1 /\ uploaded_files[1].doc.opens) =>
        LET pages == uploaded_files[1].doc.pages
            calls == ocr_log[1]
            invoked == {calls[n] : n \in 1..Len(calls)}
        IN  /\ \A k \in 1..Walked(pages) :
                  k \in invoked <=> Blank(pages[k].native)
            /\ invoked \subseteq 1..Walked(pages)
            /\ \A n \in 1..(Len(calls) - 1) : calls[n] < calls[n + 1]
            /\ (\A k \in 1..Len(pages) : ~Fails(pages[k])) =>
                  candidates[1].cv_text = JoinPages(pages)

\* a whitespace-only page recognised as "x", then a page with native "a"
C9_Witness ==
    /\ Len(ocr_log) = 1
    /\ Len(uploaded_files[1].doc.pages) = 2
    /\ uploaded_files[1].doc.pages[1].native = <<" ">>
    /\ uploaded_files[1].doc.pages[1].ocr = <<"x">>
    /\ uploaded_files[1].doc.pages[2].native = <<"a">>
    /\ ocr_log[1] = <<1>>
    /\ candidates[1].cv_text = <<"x", "\n", "a", "\n">>

\* C10: the Score and the Skill Match % of a record are computed from the
\* rest of the line on which the label first occurs: NaN when that line has
\* no digit, never the digits of a later line.
C10_LineBounded ==
    \A i \in 1..Len(results) :
        LET r == results[i]
            t == r.FullAIAnalysis
        IN  /\ Occurrences(t, K_Score, 1) # {} =>
                  r.Score = LineNumber(LineRemainder(t, K_Score))
            /\ Occurrences(t, K_SkillMatch, 1) # {} =>
                  r.SkillMatchPct = LineNumber(LineRemainder(t, K_SkillMatch))

=============================================================================
